---- MODULE Spec2Model ----
(***************************************************************************)
(* Model of the two Prometheus collectors of package collector:            *)
(*   Snapshots        (collector/snapshots.go)                             *)
(*   IndicesSettings  (collector/indices_settings.go)                      *)
(* The Elasticsearch server is the environment: every GET draws its        *)
(* response from a bounded set of responses.                               *)
(***************************************************************************)
EXTENDS Integers, Sequences, FiniteSets, TLC

\* ------------------------------------------------------------------ bounds
\* Number of Collect cycles a collector runs.
MaxScrapes == 2
\* Longest "snapshots" sequence of a detail payload.
MaxSnapshots == 2

\* ------------------------------------------------------------ the payloads
\* Repository names the discovery endpoint /_snapshot can return.
Repositories == {"archive", "backup"}

\* Two SnapshotStatDataResponse records (the fields the metrics read).
OlderSnapshot ==
    [StartTimeInMillis |-> 100000, EndTimeInMillis |-> 101500,
     State |-> "SUCCESS", Version |-> "6.8.0",
     Indices |-> <<"logs", "metrics", "traces">>, Failures |-> <<>>,
     Shards |-> [Total |-> 5, Failed |-> 0, Successful |-> 5]]

NewerSnapshot ==
    [StartTimeInMillis |-> 200750, EndTimeInMillis |-> 203250,
     State |-> "PARTIAL", Version |-> "7.1.0",
     Indices |-> <<"logs", "metrics">>, Failures |-> <<"shard 2 failed">>,
     Shards |-> [Total |-> 4, Failed |-> 1, Successful |-> 3]]

SnapshotStatDataResponse == {OlderSnapshot, NewerSnapshot}

\* All sequences over S of length at most n.
SeqUpTo(S, n) == UNION {[1..k -> S] : k \in 0..n}

\* SnapshotStatsResponse: the decoded body of /_snapshot/<repository>/_all.
SnapshotStatsResponse ==
    {[Snapshots |-> s] : s \in SeqUpTo(SnapshotStatDataResponse, MaxSnapshots)}

\* SnapshotRepositoriesResponse: the decoded body of /_snapshot; only its
\* keys are read, so it is modelled by its key set.
SnapshotRepositoriesResponse == SUBSET Repositories

\* ------------------------------------------------------- the HTTP responses
\* client.Get returns an error (no response), or a response with a status
\* code and a body; a body is malformed JSON or decodes to a value.
StatusOK == 200

MalformedBody == [valid |-> FALSE]
JSONBody(d) == [valid |-> TRUE, value |-> d]

TransportError == [failed |-> TRUE]
Response(code, body) == [failed |-> FALSE, StatusCode |-> code, Body |-> body]

\* The responses the server can give where a body of shape Decoded is read.
Responses(Decoded) ==
    {TransportError, Response(500, MalformedBody), Response(StatusOK, MalformedBody)}
    \cup {Response(StatusOK, JSONBody(d)) : d \in Decoded}

\* A response that json.Decoder.Decode rejects (it is only read on a 200).
IsDecodeFailure(res) ==
    /\ ~res.failed
    /\ res.StatusCode = StatusOK
    /\ ~res.Body.valid

\* ------------------------------------------------------------ getAndParseURL
NoError == "nil"
NoData == [valid |-> FALSE]

\* getAndParseURL with the decode (and its count) ahead of the status check.
getAndParseURLDecodingFirst(res) ==
    IF res.failed
    THEN [err |-> "failed to get", data |-> [valid |-> FALSE],
          parseFailures |-> 0, opened |-> 0, closed |-> 0]
    ELSE IF ~res.Body.valid
    THEN [err |-> "json decode error", data |-> [valid |-> FALSE],
          parseFailures |-> 1, opened |-> 1, closed |-> 1]
    ELSE IF res.StatusCode # StatusOK
    THEN [err |-> "HTTP Request failed with code", data |-> [valid |-> FALSE],
          parseFailures |-> 0, opened |-> 1, closed |-> 1]
    ELSE [err |-> "nil", data |-> res.Body,
          parseFailures |-> 0, opened |-> 1, closed |-> 1]

\* getAndParseURL returning on a non-200 status ahead of the deferred close.
getAndParseURLLeakingOnStatus(res) ==
    IF res.failed
    THEN [err |-> "failed to get", data |-> [valid |-> FALSE],
          parseFailures |-> 0, opened |-> 0, closed |-> 0]
    ELSE IF res.StatusCode # StatusOK
    THEN [err |-> "HTTP Request failed with code", data |-> [valid |-> FALSE],
          parseFailures |-> 0, opened |-> 1, closed |-> 0]
    ELSE IF ~res.Body.valid
    THEN [err |-> "json decode error", data |-> [valid |-> FALSE],
          parseFailures |-> 1, opened |-> 1, closed |-> 1]
    ELSE [err |-> "nil", data |-> res.Body,
          parseFailures |-> 0, opened |-> 1, closed |-> 1]

\* getAndParseURL on the response res of the GET: the error it returns, the
\* value decoded into data, the increments of jsonParseFailures, and the
\* numbers of response bodies opened and closed (res.Body.Close is taken to
\* succeed).
getAndParseURL(res) ==
    IF res.failed
    THEN [err |-> "failed to get", data |-> NoData,
          parseFailures |-> 0, opened |-> 0, closed |-> 0]
    ELSE IF res.StatusCode # StatusOK
    THEN [err |-> "HTTP Request failed with code", data |-> NoData,
          parseFailures |-> 0, opened |-> 1, closed |-> 1]
    ELSE IF ~res.Body.valid
    THEN [err |-> "json decode error", data |-> NoData,
          parseFailures |-> 1, opened |-> 1, closed |-> 1]
    ELSE [err |-> NoError, data |-> res.Body,
          parseFailures |-> 0, opened |-> 1, closed |-> 1]

\* ------------------------------------------------- Snapshots: the descriptors
defaultSnapshotLabels == <<"repository", "state", "version">>
defaultSnapshotLabelValues(repositoryName, snapshotStats) ==
    <<repositoryName, snapshotStats.State, snapshotStats.Version>>
defaultSnapshotRepositoryLabels == <<"repository">>
defaultSnapshotRepositoryLabelValues(repositoryName) == <<repositoryName>>

Desc(name, labels) == [fqName |-> name, variableLabels |-> labels]

\* The per-latest-record table, in the order of the source.
snapshotMetrics ==
    << Desc("snapshot_stats_snapshot_number_of_indices", defaultSnapshotLabels),
       Desc("snapshot_stats_snapshot_start_time_timestamp", defaultSnapshotLabels),
       Desc("snapshot_stats_snapshot_end_time_timestamp", defaultSnapshotLabels),
       Desc("snapshot_stats_snapshot_number_of_failures", defaultSnapshotLabels),
       Desc("snapshot_stats_snapshot_total_shards", defaultSnapshotLabels),
       Desc("snapshot_stats_snapshot_failed_shards", defaultSnapshotLabels),
       Desc("snapshot_stats_snapshot_successful_shards", defaultSnapshotLabels) >>

\* The Value function of entry i of snapshotMetrics.
snapshotMetricValue(i, snapshotStats) ==
    CASE i = 1 -> Len(snapshotStats.Indices)
      [] i = 2 -> snapshotStats.StartTimeInMillis \div 1000
      [] i = 3 -> snapshotStats.EndTimeInMillis \div 1000
      [] i = 4 -> Len(snapshotStats.Failures)
      [] i = 5 -> snapshotStats.Shards.Total
      [] i = 6 -> snapshotStats.Shards.Failed
      [] i = 7 -> snapshotStats.Shards.Successful

\* The per-entity table, in the order of the source.
repositoryMetrics ==
    << Desc("snapshot_stats_number_of_snapshots", defaultSnapshotRepositoryLabels),
       Desc("snapshot_stats_oldest_snapshot_timestamp", defaultSnapshotRepositoryLabels) >>

\* repositoryMetricValue with the oldest snapshot taken from the end of the
\* sequence.
repositoryMetricValueOldestIsLast(i, snapshotsStats) ==
    CASE i = 1 -> Len(snapshotsStats.Snapshots)
      [] i = 2 -> IF Len(snapshotsStats.Snapshots) = 0
                  THEN 0
                  ELSE snapshotsStats.Snapshots[Len(snapshotsStats.Snapshots)]
                          .StartTimeInMillis \div 1000

\* The Value function of entry i of repositoryMetrics.
repositoryMetricValue(i, snapshotsStats) ==
    CASE i = 1 -> Len(snapshotsStats.Snapshots)
      [] i = 2 -> IF Len(snapshotsStats.Snapshots) = 0
                  THEN 0
                  ELSE snapshotsStats.Snapshots[1].StartTimeInMillis \div 1000

upDesc == Desc("snapshot_stats_up", <<>>)
totalScrapesDesc == Desc("snapshot_stats_total_scrapes", <<>>)
jsonParseFailuresDesc == Desc("snapshot_stats_json_parse_failures", <<>>)

\* A sample on the metric channel.
Metric(desc, value, labelValues) ==
    [Desc |-> desc, Value |-> value, Labels |-> labelValues]

\* --------------------------------------------------------- Snapshots: state
VARIABLES
    up,                 \* the gauge s.up
    totalScrapes,       \* the counter s.totalScrapes
    jsonParseFailures,  \* the counter s.jsonParseFailures
    pc,                 \* where the current Collect call stands
    srr,                \* the repositories discovery returned (keys of srr)
    pending,            \* the repositories the detail loop has yet to visit
    mssr,               \* the result mapping: repository -> SnapshotStatsResponse
    toEmit,             \* the repositories the sample loop has yet to visit
    ch,                 \* the samples the current Collect call sent, in order
    gets,               \* the GETs of the current Collect call: url and response
    logs,               \* the log entries of the current Collect call
    opened, closed,     \* response bodies opened / closed in the current call
    prev,               \* up, counters and discovery of the call before
    descs               \* the descriptors the last Describe call sent

snapVars == <<up, totalScrapes, jsonParseFailures, pc, srr, pending, mssr,
              toEmit, ch, gets, logs, opened, closed, prev, descs>>

EmptyMap == [r \in {} |-> [Snapshots |-> <<>>]]

discoveryURL == <<"_snapshot">>
detailURL(repository) == <<"_snapshot", repository, "_all">>

SnapInit ==
    /\ up = 0
    /\ totalScrapes = 0
    /\ jsonParseFailures = 0
    /\ pc = "idle"
    /\ srr = {}
    /\ pending = {}
    /\ mssr = EmptyMap
    /\ toEmit = {}
    /\ ch = <<>>
    /\ gets = <<>>
    /\ logs = <<>>
    /\ opened = 0
    /\ closed = 0
    /\ prev = [up |-> 0, totalScrapes |-> 0, jsonParseFailures |-> 0, srr |-> {}]
    /\ descs = <<>>

\* ------------------------------------------------------ Snapshots: Describe
\* The descriptors Describe sends, in order.
DescribeDescs ==
    snapshotMetrics \o <<upDesc, totalScrapesDesc, jsonParseFailuresDesc>>

Describe ==
    /\ descs' = DescribeDescs
    /\ UNCHANGED <<up, totalScrapes, jsonParseFailures, pc, srr, pending, mssr,
                   toEmit, ch, gets, logs, opened, closed, prev>>

\* ------------------------------------------------------- Snapshots: Collect
\* CollectBegin with the result mapping of the call before kept (the mapping
\* held by the collector instead of made anew by each call).
CollectBeginKeepsMapping ==
    /\ pc \in {"idle", "done"}
    /\ totalScrapes < MaxScrapes
    /\ totalScrapes' = totalScrapes + 1
    /\ prev' = [up |-> up, totalScrapes |-> totalScrapes,
                jsonParseFailures |-> jsonParseFailures, srr |-> srr]
    /\ pc' = "discovering"
    /\ srr' = {}
    /\ pending' = {}
    /\ toEmit' = {}
    /\ ch' = <<>>
    /\ gets' = <<>>
    /\ logs' = <<>>
    /\ opened' = 0
    /\ closed' = 0
    /\ UNCHANGED <<up, jsonParseFailures, descs, mssr>>

\* Entry of Collect: s.totalScrapes.Inc(), and the deferred send is armed.
CollectBegin ==
    /\ pc \in {"idle", "done"}
    /\ totalScrapes < MaxScrapes
    /\ totalScrapes' = totalScrapes + 1
    /\ prev' = [up |-> up, totalScrapes |-> totalScrapes,
                jsonParseFailures |-> jsonParseFailures, srr |-> srr]
    /\ pc' = "discovering"
    /\ srr' = {}
    /\ pending' = {}
    /\ mssr' = EmptyMap
    /\ toEmit' = {}
    /\ ch' = <<>>
    /\ gets' = <<>>
    /\ logs' = <<>>
    /\ opened' = 0
    /\ closed' = 0
    /\ UNCHANGED <<up, jsonParseFailures, descs>>

\* upAfter with the failure branch setting the gauge like the success branch.
upAfterAlwaysOne(err) == 1

\* The value Collect gives up when fetchAndDecodeSnapshotsStats returns err.
upAfter(err) == IF err # NoError THEN 0 ELSE 1

\* The discovery GET of fetchAndDecodeSnapshotsStats; on an error Collect
\* sets up to 0, logs a warning and returns (the deferred send remains).
Discover ==
    /\ pc = "discovering"
    /\ \E res \in Responses(SnapshotRepositoriesResponse) :
         LET r == getAndParseURL(res) IN
         /\ gets' = Append(gets, [url |-> discoveryURL, res |-> res])
         /\ jsonParseFailures' = jsonParseFailures + r.parseFailures
         /\ opened' = opened + r.opened
         /\ closed' = closed + r.closed
         /\ IF r.err # NoError
            THEN /\ up' = upAfter(r.err)
                 /\ logs' = Append(logs, "failed to fetch and decode snapshot stats")
                 /\ pc' = "deferred"
                 /\ UNCHANGED <<srr, pending>>
            ELSE /\ srr' = r.data.value
                 /\ pending' = r.data.value
                 /\ pc' = "fetching"
                 /\ UNCHANGED <<up, logs>>
    /\ UNCHANGED <<totalScrapes, mssr, toEmit, ch, prev, descs>>

\* withDetail with a failed detail fetch discarding the mapping built so far
\* (the error handled like the discovery error instead of skipped).
withDetailAbort(m, repository, r) ==
    IF r.err # NoError THEN EmptyMap ELSE (repository :> r.data.value) @@ m

\* The result mapping after the detail fetch of repository returned r.
withDetail(m, repository, r) ==
    IF r.err # NoError THEN m ELSE (repository :> r.data.value) @@ m

\* FetchDetail with a failed detail fetch tried again (the repository stays
\* to be visited until its fetch succeeds).
FetchDetailRetrying ==
    /\ pc = "fetching"
    /\ \E repository \in pending :
         \E res \in Responses(SnapshotStatsResponse) :
           LET r == getAndParseURL(res) IN
           /\ gets' = Append(gets, [url |-> detailURL(repository), res |-> res])
           /\ jsonParseFailures' = jsonParseFailures + r.parseFailures
           /\ opened' = opened + r.opened
           /\ closed' = closed + r.closed
           /\ mssr' = withDetail(mssr, repository, r)
           /\ pending' = IF r.err # "nil" THEN pending ELSE pending \ {repository}
    /\ UNCHANGED <<up, totalScrapes, pc, srr, toEmit, ch, logs, prev, descs>>

\* One iteration of the detail loop (the range over srr visits the
\* repositories in an unspecified order).
FetchDetail ==
    /\ pc = "fetching"
    /\ \E repository \in pending :
         \E res \in Responses(SnapshotStatsResponse) :
           LET r == getAndParseURL(res) IN
           /\ gets' = Append(gets, [url |-> detailURL(repository), res |-> res])
           /\ jsonParseFailures' = jsonParseFailures + r.parseFailures
           /\ opened' = opened + r.opened
           /\ closed' = closed + r.closed
           /\ mssr' = withDetail(mssr, repository, r)
           /\ pending' = pending \ {repository}
    /\ UNCHANGED <<up, totalScrapes, pc, srr, toEmit, ch, logs, prev, descs>>

\* FetchDone with up set to 1 only when some detail fetch succeeded.
FetchDoneUpNeedsPayload ==
    /\ pc = "fetching"
    /\ pending = {}
    /\ up' = IF DOMAIN mssr = {} THEN 0 ELSE 1
    /\ toEmit' = DOMAIN mssr
    /\ pc' = "emitting"
    /\ UNCHANGED <<totalScrapes, jsonParseFailures, srr, pending, mssr, ch,
                   gets, logs, opened, closed, prev, descs>>

\* The detail loop is over: fetchAndDecodeSnapshotsStats returns (mssr, nil)
\* and Collect sets up to 1.
FetchDone ==
    /\ pc = "fetching"
    /\ pending = {}
    /\ up' = upAfter(NoError)
    /\ toEmit' = DOMAIN mssr
    /\ pc' = "emitting"
    /\ UNCHANGED <<totalScrapes, jsonParseFailures, srr, pending, mssr, ch,
                   gets, logs, opened, closed, prev, descs>>

\* The samples of the tables, one per entry, in table order.
repositorySamples(repositoryName, snapshotStats) ==
    [i \in 1..Len(repositoryMetrics) |->
        Metric(repositoryMetrics[i],
               repositoryMetricValue(i, snapshotStats),
               defaultSnapshotRepositoryLabelValues(repositoryName))]

snapshotSamples(repositoryName, lastSnapshot) ==
    [i \in 1..Len(snapshotMetrics) |->
        Metric(snapshotMetrics[i],
               snapshotMetricValue(i, lastSnapshot),
               defaultSnapshotLabelValues(repositoryName, lastSnapshot))]

\* lastSnapshotOf reading the first element of the sequence.
firstSnapshotOf(snapshotStats) == snapshotStats.Snapshots[1]

\* The element of the records sequence the per-latest-record table reads.
lastSnapshotOf(snapshotStats) ==
    snapshotStats.Snapshots[Len(snapshotStats.Snapshots)]

\* samplesOf with the empty-sequence check ahead of the per-entity table.
samplesOfSkippingEmpty(repositoryName, snapshotStats) ==
    IF Len(snapshotStats.Snapshots) = 0
    THEN <<>>
    ELSE repositorySamples(repositoryName, snapshotStats)
         \o snapshotSamples(repositoryName,
                snapshotStats.Snapshots[Len(snapshotStats.Snapshots)])

\* The samples one iteration of the sample loop sends.
samplesOf(repositoryName, snapshotStats) ==
    repositorySamples(repositoryName, snapshotStats)
    \o IF Len(snapshotStats.Snapshots) = 0
       THEN <<>>
       ELSE snapshotSamples(repositoryName, lastSnapshotOf(snapshotStats))

\* One iteration of the sample loop (the range over the result mapping
\* visits the repositories in an unspecified order).
EmitRepository ==
    /\ pc = "emitting"
    /\ \E repositoryName \in toEmit :
         /\ ch' = ch \o samplesOf(repositoryName, mssr[repositoryName])
         /\ toEmit' = toEmit \ {repositoryName}
    /\ UNCHANGED <<up, totalScrapes, jsonParseFailures, pc, srr, pending, mssr,
                   gets, logs, opened, closed, prev, descs>>

\* bookkeepingSamples with the send of s.jsonParseFailures left out.
bookkeepingSamplesWithoutFailures ==
    << Metric(upDesc, up, <<>>),
       Metric(totalScrapesDesc, totalScrapes, <<>>) >>

\* The samples the deferred function of Collect sends.
bookkeepingSamples ==
    << Metric(upDesc, up, <<>>),
       Metric(totalScrapesDesc, totalScrapes, <<>>),
       Metric(jsonParseFailuresDesc, jsonParseFailures, <<>>) >>

\* Collect returns: after the sample loop, or early from the failed
\* discovery; the deferred function runs.
CollectReturn ==
    /\ \/ pc = "deferred"
       \/ pc = "emitting" /\ toEmit = {}
    /\ ch' = ch \o bookkeepingSamples
    /\ pc' = "done"
    /\ UNCHANGED <<up, totalScrapes, jsonParseFailures, srr, pending, mssr,
                   toEmit, gets, logs, opened, closed, prev, descs>>

\* --------------------------------------------------- IndicesSettings: state
\* The decoded body of /_all/_settings: index name -> the value of its
\* settings.index.blocks.read_only ("" when the setting is absent).
IndexNames == {"logs", "metrics"}
ReadOnlyValues == {"true", "false", ""}
IndicesSettingsResponse ==
    UNION {[S -> ReadOnlyValues] : S \in SUBSET IndexNames}

\* cs.url.String(), the one label value the vectors are used with.
urlString == "http://localhost:9200"

VARIABLES
    isUp,                 \* the GaugeVec cs.up: label value -> value
    isReadOnlyIndices,    \* the GaugeVec cs.readOnlyIndices
    isTotalScrapes,       \* the CounterVec cs.totalScrapes
    isJsonParseFailures,  \* the CounterVec cs.jsonParseFailures
    isPc,                 \* where the current Collect call stands
    isCh,                 \* the samples the current Collect call sent
    isGets,               \* the responses to the GETs of the current call
    isLogs,               \* the log entries of the current Collect call
    isOpened, isClosed,   \* response bodies opened / closed in the current call
    isDescs               \* the descriptors the last Describe call sent

isVars == <<isUp, isReadOnlyIndices, isTotalScrapes, isJsonParseFailures,
            isPc, isCh, isGets, isLogs, isOpened, isClosed, isDescs>>

\* A metric vector without children.
EmptyVec == [l \in {} |-> 0]

\* vec.WithLabelValues(lv): the child is created, with value 0, when absent.
WithLabelValues(vec, lv) == IF lv \in DOMAIN vec THEN vec ELSE (lv :> 0) @@ vec
\* vec.WithLabelValues(lv).Set(v) and vec.WithLabelValues(lv).Inc().
VecSet(vec, lv, v) == [WithLabelValues(vec, lv) EXCEPT ![lv] = v]
VecInc(vec, lv) == [WithLabelValues(vec, lv) EXCEPT ![lv] = @ + 1]
\* vec.Collect(ch): one sample per child.
VecCollect(vec, desc) ==
    IF urlString \in DOMAIN vec
    THEN <<Metric(desc, vec[urlString], <<urlString>>)>>
    ELSE <<>>

isUpDesc == Desc("indices_settings_stats_up", <<"url">>)
isTotalScrapesDesc == Desc("indices_settings_stats_total_scrapes", <<"url">>)
isReadOnlyIndicesDesc == Desc("indices_settings_stats_read_only_indices", <<"url">>)
isJsonParseFailuresDesc == Desc("indices_settings_stats_json_parse_failures", <<"url">>)

ISInit ==
    /\ isUp = EmptyVec
    /\ isReadOnlyIndices = EmptyVec
    /\ isTotalScrapes = EmptyVec
    /\ isJsonParseFailures = EmptyVec
    /\ isPc = "idle"
    /\ isCh = <<>>
    /\ isGets = <<>>
    /\ isLogs = <<>>
    /\ isOpened = 0
    /\ isClosed = 0
    /\ isDescs = <<>>

\* ISDescribe with every child set back to 0 (the vectors' children made
\* anew by each call).
ISDescribeResetting ==
    /\ isUp' = VecSet(isUp, urlString, 0)
    /\ isTotalScrapes' = VecSet(isTotalScrapes, urlString, 0)
    /\ isReadOnlyIndices' = VecSet(isReadOnlyIndices, urlString, 0)
    /\ isJsonParseFailures' = VecSet(isJsonParseFailures, urlString, 0)
    /\ isDescs' = <<isUpDesc, isTotalScrapesDesc, isReadOnlyIndicesDesc,
                    isJsonParseFailuresDesc>>
    /\ UNCHANGED <<isPc, isCh, isGets, isLogs, isOpened, isClosed>>

\* IndicesSettings.Describe: every WithLabelValues creates the child.
ISDescribe ==
    /\ isUp' = WithLabelValues(isUp, urlString)
    /\ isTotalScrapes' = WithLabelValues(isTotalScrapes, urlString)
    /\ isReadOnlyIndices' = WithLabelValues(isReadOnlyIndices, urlString)
    /\ isJsonParseFailures' = WithLabelValues(isJsonParseFailures, urlString)
    /\ isDescs' = <<isUpDesc, isTotalScrapesDesc, isReadOnlyIndicesDesc,
                    isJsonParseFailuresDesc>>
    /\ UNCHANGED <<isPc, isCh, isGets, isLogs, isOpened, isClosed>>

\* ISCollectBegin with the child of the scrape counter looked up and not
\* incremented.
ISCollectBeginWithoutInc ==
    /\ isPc \in {"idle", "done"}
    /\ WithLabelValues(isTotalScrapes, urlString)[urlString] < MaxScrapes
    /\ isTotalScrapes' = WithLabelValues(isTotalScrapes, urlString)
    /\ isPc' = "fetching"
    /\ isCh' = <<>>
    /\ isGets' = <<>>
    /\ isLogs' = <<>>
    /\ isOpened' = 0
    /\ isClosed' = 0
    /\ UNCHANGED <<isUp, isReadOnlyIndices, isJsonParseFailures, isDescs>>

\* Entry of IndicesSettings.Collect: the scrape counter is incremented.
ISCollectBegin ==
    /\ isPc \in {"idle", "done"}
    /\ WithLabelValues(isTotalScrapes, urlString)[urlString] < MaxScrapes
    /\ isTotalScrapes' = VecInc(isTotalScrapes, urlString)
    /\ isPc' = "fetching"
    /\ isCh' = <<>>
    /\ isGets' = <<>>
    /\ isLogs' = <<>>
    /\ isOpened' = 0
    /\ isClosed' = 0
    /\ UNCHANGED <<isUp, isReadOnlyIndices, isJsonParseFailures, isDescs>>

\* IndicesSettings.getAndParseURL: the same steps as Snapshots.getAndParseURL.
isGetAndParseURL(res) ==
    IF res.failed
    THEN [err |-> "failed to get", data |-> NoData,
          parseFailures |-> 0, opened |-> 0, closed |-> 0]
    ELSE IF res.StatusCode # StatusOK
    THEN [err |-> "HTTP Request failed with code", data |-> NoData,
          parseFailures |-> 0, opened |-> 1, closed |-> 1]
    ELSE IF ~res.Body.valid
    THEN [err |-> "json decode error", data |-> NoData,
          parseFailures |-> 1, opened |-> 1, closed |-> 1]
    ELSE [err |-> NoError, data |-> res.Body,
          parseFailures |-> 0, opened |-> 1, closed |-> 1]

\* readOnlyCount counting every index whose read_only setting is not "false".
readOnlyCountNotFalse(asr) == Cardinality({i \in DOMAIN asr : asr[i] # "false"})

\* The count c of Collect: the indices whose read_only setting is "true".
readOnlyCount(asr) == Cardinality({i \in DOMAIN asr : asr[i] = "true"})

\* What Collect sends after a successful fetch, given the vectors' new values.
isCollectSamples(upVec, totalVec, failuresVec, readOnlyVec) ==
    VecCollect(upVec, isUpDesc)
    \o VecCollect(totalVec, isTotalScrapesDesc)
    \o VecCollect(failuresVec, isJsonParseFailuresDesc)
    \o VecCollect(readOnlyVec, isReadOnlyIndicesDesc)

\* The rest of IndicesSettings.Collect: the fetch of /_all/_settings and
\* either the early return or the count and the sends.
ISCollectFetch ==
    /\ isPc = "fetching"
    /\ \E res \in Responses(IndicesSettingsResponse) :
         LET r == isGetAndParseURL(res)
             failures == IF r.parseFailures > 0
                         THEN VecInc(isJsonParseFailures, urlString)
                         ELSE isJsonParseFailures
         IN
         /\ isGets' = Append(isGets, res)
         /\ isOpened' = isOpened + r.opened
         /\ isClosed' = isClosed + r.closed
         /\ isJsonParseFailures' = failures
         /\ IF r.err # NoError
            THEN /\ isReadOnlyIndices' = VecSet(isReadOnlyIndices, urlString, 0)
                 /\ isUp' = VecSet(isUp, urlString, 0)
                 /\ isLogs' = Append(isLogs,
                        "failed to fetch and decode cluster settings stats")
                 /\ UNCHANGED isCh
            ELSE /\ isUp' = VecSet(isUp, urlString, 1)
                 /\ isReadOnlyIndices' =
                        VecSet(isReadOnlyIndices, urlString, readOnlyCount(r.data.value))
                 /\ isCh' = isCh \o isCollectSamples(isUp', isTotalScrapes,
                                        failures, isReadOnlyIndices')
                 /\ UNCHANGED isLogs
    /\ isPc' = "done"
    /\ UNCHANGED <<isTotalScrapes, isDescs>>

\* ------------------------------------ Snapshots: concurrent Collect calls
\* Two goroutines of the registry call Collect on the same Snapshots
\* collector. The gauge and the two counters are the only state the calls
\* share; Inc and Set are the atomic operations of the metric types. What a
\* call keeps to itself (its result mapping, of which only the key set is
\* kept here, and its channel) reaches no other call, so its sample loop and
\* deferred sends are one step.
Goroutines == {"g1", "g2"}

VARIABLES
    cUp,                 \* the gauge s.up
    cTotalScrapes,       \* the counter s.totalScrapes
    cJsonParseFailures,  \* the counter s.jsonParseFailures
    cPc,                 \* goroutine -> where its Collect call stands
    cPending,            \* goroutine -> repositories its detail loop has to visit
    cFetched,            \* goroutine -> key set of its result mapping
    cBegun,              \* goroutine -> the Collect calls it has begun
    cFailures            \* goroutine -> the decode failures its calls have met

concVars == <<cUp, cTotalScrapes, cJsonParseFailures, cPc, cPending, cFetched,
              cBegun, cFailures>>

ConcInit ==
    /\ cUp = 0
    /\ cTotalScrapes = 0
    /\ cJsonParseFailures = 0
    /\ cPc = [g \in Goroutines |-> "idle"]
    /\ cPending = [g \in Goroutines |-> {}]
    /\ cFetched = [g \in Goroutines |-> {}]
    /\ cBegun = [g \in Goroutines |-> 0]
    /\ cFailures = [g \in Goroutines |-> 0]

\* Entry of Collect in goroutine g: s.totalScrapes.Inc().
ConcCollectBegin(g) ==
    /\ cPc[g] \in {"idle", "done"}
    /\ cTotalScrapes < MaxScrapes
    /\ cTotalScrapes' = cTotalScrapes + 1
    /\ cPc' = [cPc EXCEPT ![g] = "discovering"]
    /\ cPending' = [cPending EXCEPT ![g] = {}]
    /\ cFetched' = [cFetched EXCEPT ![g] = {}]
    /\ cBegun' = [cBegun EXCEPT ![g] = @ + 1]
    /\ UNCHANGED <<cUp, cJsonParseFailures, cFailures>>

\* The discovery GET of goroutine g, with the Inc of getAndParseURL.
ConcDiscover(g) ==
    /\ cPc[g] = "discovering"
    /\ \E res \in Responses(SnapshotRepositoriesResponse) :
         LET r == getAndParseURL(res) IN
         /\ cJsonParseFailures' = cJsonParseFailures + r.parseFailures
         /\ cFailures' = [cFailures EXCEPT
                             ![g] = @ + (IF IsDecodeFailure(res) THEN 1 ELSE 0)]
         /\ IF r.err # NoError
            THEN /\ cPc' = [cPc EXCEPT ![g] = "failed"]
                 /\ UNCHANGED cPending
            ELSE /\ cPc' = [cPc EXCEPT ![g] = "fetching"]
                 /\ cPending' = [cPending EXCEPT ![g] = r.data.value]
    /\ UNCHANGED <<cUp, cTotalScrapes, cFetched, cBegun>>

\* Collect of goroutine g after the failed discovery: s.up.Set(0).
ConcDiscoveryFailed(g) ==
    /\ cPc[g] = "failed"
    /\ cUp' = upAfter("failed to fetch and decode snapshot stats")
    /\ cPc' = [cPc EXCEPT ![g] = "returning"]
    /\ UNCHANGED <<cTotalScrapes, cJsonParseFailures, cPending, cFetched,
                   cBegun, cFailures>>

\* ConcFetchDetail with the counter set to the failures the goroutine's own
\* calls have met (a tally kept by the caller and stored, instead of Inc).
ConcFetchDetailStoringOwnCount(g) ==
    /\ cPc[g] = "fetching"
    /\ \E repository \in cPending[g] :
         \E res \in Responses(SnapshotStatsResponse) :
           LET r == getAndParseURL(res) IN
           /\ cJsonParseFailures' = IF r.parseFailures > 0
                                    THEN cFailures[g] + r.parseFailures
                                    ELSE cJsonParseFailures
           /\ cFailures' = [cFailures EXCEPT
                               ![g] = @ + (IF IsDecodeFailure(res) THEN 1 ELSE 0)]
           /\ cFetched' = [cFetched EXCEPT
                              ![g] = IF r.err # "nil" THEN @ ELSE @ \cup {repository}]
           /\ cPending' = [cPending EXCEPT ![g] = @ \ {repository}]
    /\ UNCHANGED <<cUp, cTotalScrapes, cPc, cBegun>>

\* One iteration of the detail loop of goroutine g, with the Inc of
\* getAndParseURL.
ConcFetchDetail(g) ==
    /\ cPc[g] = "fetching"
    /\ \E repository \in cPending[g] :
         \E res \in Responses(SnapshotStatsResponse) :
           LET r == getAndParseURL(res) IN
           /\ cJsonParseFailures' = cJsonParseFailures + r.parseFailures
           /\ cFailures' = [cFailures EXCEPT
                               ![g] = @ + (IF IsDecodeFailure(res) THEN 1 ELSE 0)]
           /\ cFetched' = [cFetched EXCEPT
                              ![g] = DOMAIN withDetail([k \in @ |-> NoData],
                                                       repository, r)]
           /\ cPending' = [cPending EXCEPT ![g] = @ \ {repository}]
    /\ UNCHANGED <<cUp, cTotalScrapes, cPc, cBegun>>

\* The detail loop of goroutine g is over: s.up.Set(1).
ConcFetchDone(g) ==
    /\ cPc[g] = "fetching"
    /\ cPending[g] = {}
    /\ cUp' = upAfter(NoError)
    /\ cPc' = [cPc EXCEPT ![g] = "returning"]
    /\ UNCHANGED <<cTotalScrapes, cJsonParseFailures, cPending, cFetched,
                   cBegun, cFailures>>

\* The sample loop and the deferred sends of goroutine g, on its own channel.
ConcCollectReturn(g) ==
    /\ cPc[g] = "returning"
    /\ cPc' = [cPc EXCEPT ![g] = "done"]
    /\ UNCHANGED <<cUp, cTotalScrapes, cJsonParseFailures, cPending, cFetched,
                   cBegun, cFailures>>

\* ------------------------------------------------------- the specifications
vars == <<snapVars, isVars, concVars>>

Init == SnapInit /\ ISInit /\ ConcInit

\* The Snapshots collector, scraped and described by its registry.
Next ==
    \/ Describe /\ UNCHANGED <<isVars, concVars>>
    \/ CollectBegin /\ UNCHANGED <<isVars, concVars>>
    \/ Discover /\ UNCHANGED <<isVars, concVars>>
    \/ FetchDetail /\ UNCHANGED <<isVars, concVars>>
    \/ FetchDone /\ UNCHANGED <<isVars, concVars>>
    \/ EmitRepository /\ UNCHANGED <<isVars, concVars>>
    \/ CollectReturn /\ UNCHANGED <<isVars, concVars>>

Spec == Init /\ [][Next]_vars

\* The IndicesSettings collector, scraped and described by its registry.
ISNext ==
    \/ ISDescribe /\ UNCHANGED <<snapVars, concVars>>
    \/ ISCollectBegin /\ UNCHANGED <<snapVars, concVars>>
    \/ ISCollectFetch /\ UNCHANGED <<snapVars, concVars>>

SpecIS == Init /\ [][ISNext]_vars

\* Either collector, scraped and described by its registry. The two
\* collectors share no state, so each is followed from the initial state of
\* the other: a property of one collector's variables holds of every
\* interleaving of the two once it holds here.
EachNext ==
    \/ ISInit /\ Describe /\ UNCHANGED <<isVars, concVars>>
    \/ ISInit /\ CollectBegin /\ UNCHANGED <<isVars, concVars>>
    \/ ISInit /\ Discover /\ UNCHANGED <<isVars, concVars>>
    \/ ISInit /\ FetchDetail /\ UNCHANGED <<isVars, concVars>>
    \/ ISInit /\ FetchDone /\ UNCHANGED <<isVars, concVars>>
    \/ ISInit /\ EmitRepository /\ UNCHANGED <<isVars, concVars>>
    \/ ISInit /\ CollectReturn /\ UNCHANGED <<isVars, concVars>>
    \/ SnapInit /\ ISDescribe /\ UNCHANGED <<snapVars, concVars>>
    \/ SnapInit /\ ISCollectBegin /\ UNCHANGED <<snapVars, concVars>>
    \/ SnapInit /\ ISCollectFetch /\ UNCHANGED <<snapVars, concVars>>

SpecEach == Init /\ [][EachNext]_vars

\* A step of a Collect call in flight on the Snapshots collector.
CollectStep ==
    \/ Discover /\ UNCHANGED <<isVars, concVars>>
    \/ FetchDetail /\ UNCHANGED <<isVars, concVars>>
    \/ FetchDone /\ UNCHANGED <<isVars, concVars>>
    \/ EmitRepository /\ UNCHANGED <<isVars, concVars>>
    \/ CollectReturn /\ UNCHANGED <<isVars, concVars>>

\* Spec where a Collect call in flight goes on: the goroutine keeps running,
\* every GET of the client returns and the registry receives from ch.
SpecFair == Spec /\ WF_vars(CollectStep)

\* Two goroutines calling Collect on one Snapshots collector.
ConcNext ==
    \E g \in Goroutines :
        \/ ConcCollectBegin(g) /\ UNCHANGED <<snapVars, isVars>>
        \/ ConcDiscover(g) /\ UNCHANGED <<snapVars, isVars>>
        \/ ConcDiscoveryFailed(g) /\ UNCHANGED <<snapVars, isVars>>
        \/ ConcFetchDetail(g) /\ UNCHANGED <<snapVars, isVars>>
        \/ ConcFetchDone(g) /\ UNCHANGED <<snapVars, isVars>>
        \/ ConcCollectReturn(g) /\ UNCHANGED <<snapVars, isVars>>

SpecConc == Init /\ [][ConcNext]_vars

\* ------------------------------------------- what a cycle saw and what it sent
Range(s) == {s[i] : i \in DOMAIN s}

\* The server answered the GET with a 200 and a body that decodes.
Succeeded(res) ==
    /\ ~res.failed
    /\ res.StatusCode = StatusOK
    /\ res.Body.valid

bookkeepingDescs == {upDesc, totalScrapesDesc, jsonParseFailuresDesc}
IsBookkeeping(m) == m.Desc \in bookkeepingDescs
IsData(m) == ~IsBookkeeping(m)

\* The current cycle's discovery GET was answered / was answered well.
DiscoveryDone == Len(gets) >= 1
DiscoveryOK == DiscoveryDone /\ Succeeded(gets[1].res)
DiscoveryFailed == DiscoveryDone /\ ~Succeeded(gets[1].res)
\* The repositories the server listed in the current cycle.
Discovered == IF DiscoveryOK THEN gets[1].res.Body.value ELSE {}

\* The detail GETs of repository r in the current cycle.
DetailGets(r) == {i \in DOMAIN gets : gets[i].url = detailURL(r)}
DetailOK(r) == \E i \in DetailGets(r) : Succeeded(gets[i].res)
DetailFailed(r) == \E i \in DetailGets(r) : ~Succeeded(gets[i].res)
\* The payload the server sent for r (where DetailOK(r)).
Payload(r) ==
    gets[CHOOSE i \in DetailGets(r) : Succeeded(gets[i].res)].res.Body.value

\* Positions in ch of the data samples, of those labelled with repository r,
\* and of the samples of descriptor d.
DataAt == {i \in DOMAIN ch : IsData(ch[i])}
DataOf(r) == {i \in DataAt : ch[i].Labels[1] = r}
SentOf(d) == {i \in DOMAIN ch : ch[i].Desc = d}
SentOfFor(d, r) == {i \in DataOf(r) : ch[i].Desc = d}

\* ------------------------------------------------------------------- C1
\* C1: whenever the discovery GET of a Collect cycle fails (transport error,
\* non-200 status or decode failure), the cycle issues no detail GET and sends
\* no data sample, and when it has returned it has sent exactly three
\* metrics: up with value 0, total_scrapes and json_parse_failures.
C1_DiscoveryFailureSendsBookkeepingOnly ==
    DiscoveryFailed =>
        /\ Len(gets) = 1
        /\ DataAt = {}
        /\ pc = "done" =>
              /\ Len(ch) = 3
              /\ {ch[i].Desc : i \in DOMAIN ch} = bookkeepingDescs
              /\ \A i \in SentOf(upDesc) : ch[i].Value = 0

\* A cycle whose discovery GET got a 500 has returned.
C1_Witness ==
    /\ pc = "done"
    /\ DiscoveryFailed
    /\ ~gets[1].res.failed
    /\ gets[1].res.StatusCode = 500
    /\ Len(ch) = 3

\* ------------------------------------------------------------------- C2
\* C2: when discovery succeeded and the cycle has returned, up was sent as 1,
\* every discovered repository had its detail GET, every repository whose
\* detail GET succeeded has all its samples (one per entry of repositoryMetrics
\* and, with at least one record, one per entry of snapshotMetrics), and a
\* repository whose detail GET failed has none: whatever subset failed.
C2_DetailFailureRemovesOnlyThatRepository ==
    (pc = "done" /\ DiscoveryOK) =>
        /\ \A i \in SentOf(upDesc) : ch[i].Value = 1
        /\ SentOf(upDesc) # {}
        /\ \A r \in Discovered : Cardinality(DetailGets(r)) = 1
        /\ \A r \in Discovered :
             IF DetailOK(r)
             THEN /\ \A k \in DOMAIN repositoryMetrics :
                       Cardinality(SentOfFor(repositoryMetrics[k], r)) = 1
                  /\ Len(Payload(r).Snapshots) > 0 =>
                       \A k \in DOMAIN snapshotMetrics :
                          Cardinality(SentOfFor(snapshotMetrics[k], r)) = 1
             ELSE DataOf(r) = {}

\* Two repositories were discovered; the detail GET of one got a 500 before
\* the detail GET of the other succeeded with a record, and the cycle returned.
C2_Witness ==
    /\ pc = "done"
    /\ Discovered = Repositories
    /\ Len(gets) = 3
    /\ ~Succeeded(gets[2].res)
    /\ ~gets[2].res.failed
    /\ gets[2].res.StatusCode = 500
    /\ Succeeded(gets[3].res)
    /\ Len(gets[3].res.Body.value.Snapshots) > 0
    /\ Cardinality(DataAt) = Len(repositoryMetrics) + Len(snapshotMetrics)

\* ------------------------------------------------------------------- C3
\* C3: Describe sends the descriptor of every entry of snapshotMetrics and of
\* repositoryMetrics and the three bookkeeping descriptors, so that every
\* sample Collect sends has a descriptor that Describe sent.
C3_DescribeCoversEverySample ==
    descs # <<>> =>
        /\ Range(snapshotMetrics) \subseteq Range(descs)
        /\ Range(repositoryMetrics) \subseteq Range(descs)
        /\ bookkeepingDescs \subseteq Range(descs)
        /\ \A i \in DOMAIN ch : ch[i].Desc \in Range(descs)

\* ------------------------------------------------------------------- C4
\* C4: on every exit path of Collect the three bookkeeping metrics are sent
\* exactly once each, as the last three sends of the cycle: none is sent
\* before the cycle returns, and no data sample follows one.
C4_BookkeepingSentOnceAndLast ==
    /\ pc # "done" => \A i \in DOMAIN ch : IsData(ch[i])
    /\ pc = "done" =>
          /\ \A d \in bookkeepingDescs : Cardinality(SentOf(d)) = 1
          /\ Len(ch) >= 3
          /\ \A i \in DOMAIN ch : IsBookkeeping(ch[i]) <=> i > Len(ch) - 3

\* A cycle that sent data samples has returned.
C4_Witness ==
    /\ pc = "done"
    /\ DataAt # {}
    /\ IsBookkeeping(ch[Len(ch)])

\* ------------------------------------------------------------------- C5
\* C5: when IndicesSettings.Collect has returned, on the early return of a
\* failed fetch as on the normal return, it has sent up, total_scrapes and
\* json_parse_failures, each after the data metric read_only_indices.
C5_ISBookkeepingOnEveryExitAndLast ==
    isPc = "done" =>
        \A d \in {isUpDesc, isTotalScrapesDesc, isJsonParseFailuresDesc} :
            \E i \in DOMAIN isCh :
                /\ isCh[i].Desc = d
                /\ \A j \in DOMAIN isCh :
                      isCh[j].Desc = isReadOnlyIndicesDesc => j < i

\* ------------------------------------------------------------------- C6
\* C6: with N repositories discovered, M of them with a successful detail GET
\* and K of those M with at least one record, a returned cycle has sent
\* Len(repositoryMetrics) * M per-entity samples and Len(snapshotMetrics) * K
\* per-latest-record samples, 2*M + 7*K data samples in all; a repository
\* with a zero-record payload has its per-entity samples and no other.
C6_SampleCount ==
    (pc = "done" /\ DiscoveryOK) =>
        LET Fetched == {r \in Discovered : DetailOK(r)}
            WithRecords == {r \in Fetched : Len(Payload(r).Snapshots) > 0}
            M == Cardinality(Fetched)
            K == Cardinality(WithRecords)
            PerEntity == {i \in DataAt : ch[i].Desc \in Range(repositoryMetrics)}
            PerLatest == {i \in DataAt : ch[i].Desc \in Range(snapshotMetrics)}
        IN  /\ M <= Cardinality(Discovered)
            /\ Cardinality(PerEntity) = Len(repositoryMetrics) * M
            /\ Cardinality(PerLatest) = Len(snapshotMetrics) * K
            /\ Cardinality(DataAt) = 2 * M + 7 * K
            /\ \A r \in Fetched \ WithRecords :
                  /\ DataOf(r) \subseteq PerEntity
                  /\ Cardinality(DataOf(r)) = Len(repositoryMetrics)

\* Both repositories were fetched, one with records and one without (N = 2,
\* M = 2, K = 1), and the cycle has returned.
C6_Witness ==
    /\ pc = "done"
    /\ Discovered = Repositories
    /\ \A r \in Repositories : DetailOK(r)
    /\ Len(Payload("archive").Snapshots) = 0
    /\ Len(Payload("backup").Snapshots) > 0
    /\ Cardinality(DataAt) = 11

\* ------------------------------------------------------------------- C7
\* The decode failures among the responses of the current cycle.
DecodeFailures == Cardinality({i \in DOMAIN gets : IsDecodeFailure(gets[i].res)})

\* C7: json_parse_failures never decreases, and at every point of a cycle it
\* exceeds its value at the start of the cycle by exactly the number of
\* responses that failed to decode so far, discovery and detail alike; a
\* transport error or a non-200 status adds nothing.
C7_ParseFailuresCountDecodeFailures ==
    /\ [](jsonParseFailures = prev.jsonParseFailures + DecodeFailures)
    /\ [][jsonParseFailures' >= jsonParseFailures]_vars

\* A second cycle, begun with the counter above 0, saw a decode failure and a
\* 500 among its detail GETs and has returned.
C7_Witness ==
    /\ pc = "done"
    /\ prev.totalScrapes >= 1
    /\ prev.jsonParseFailures >= 1
    /\ Len(gets) = 3
    /\ \E i, j \in 2..3 :
          /\ IsDecodeFailure(gets[i].res)
          /\ ~gets[j].res.failed
          /\ gets[j].res.StatusCode = 500
    /\ jsonParseFailures = prev.jsonParseFailures + 1

\* ------------------------------------------------------------------- C8
\* C8: the up a returned cycle has sent (and left in the gauge) is 1 if the
\* cycle's discovery GET succeeded and 0 if not, whatever the detail GETs and
\* the cycles before did.
C8_UpIffDiscoverySucceeded ==
    pc = "done" =>
        /\ SentOf(upDesc) # {}
        /\ \A i \in SentOf(upDesc) :
              /\ ch[i].Value = (IF DiscoveryOK THEN 1 ELSE 0)
              /\ ch[i].Value = up

\* After a cycle that left up at 0, a cycle whose discovery succeeded and
\* whose detail GETs all failed has returned with up at 1.
C8_Witness ==
    /\ pc = "done"
    /\ prev.totalScrapes >= 1
    /\ prev.up = 0
    /\ Discovered = Repositories
    /\ \A r \in Discovered : DetailFailed(r)
    /\ up = 1

\* ------------------------------------------------------------------- C9
\* C9: every per-latest-record sample of a repository has the value and the
\* state and version labels of the last element of the records sequence the
\* server sent for it; with the records <<OlderSnapshot, NewerSnapshot>> the
\* start-time sample is 200 and the state label "PARTIAL".
C9_LatestRecordIsLastElement ==
    \A r \in Discovered :
        \A k \in DOMAIN snapshotMetrics :
            \A i \in SentOfFor(snapshotMetrics[k], r) :
                /\ DetailOK(r)
                /\ LET records == Payload(r).Snapshots
                       last == records[Len(records)]
                   IN  /\ ch[i].Value = snapshotMetricValue(k, last)
                       /\ ch[i].Labels = <<r, last.State, last.Version>>
                       /\ records = <<OlderSnapshot, NewerSnapshot>> =>
                             /\ k = 2 => ch[i].Value = 200
                             /\ ch[i].Labels[2] = "PARTIAL"

\* The samples of a repository with the records <<OlderSnapshot,
\* NewerSnapshot>> were sent.
C9_Witness ==
    /\ pc = "done"
    /\ \E r \in Discovered :
          /\ DetailOK(r)
          /\ Payload(r).Snapshots = <<OlderSnapshot, NewerSnapshot>>
          /\ SentOfFor(snapshotMetrics[2], r) # {}

\* ------------------------------------------------------------------ C10
\* C10: the repository label of every data sample of a cycle is a repository
\* the same cycle's discovery listed and whose detail GET succeeded in the
\* same cycle.
C10_SamplesOnlyOfDiscoveredRepositories ==
    \A i \in DataAt :
        /\ ch[i].Labels[1] \in Discovered
        /\ DetailOK(ch[i].Labels[1])

\* A repository discovered by the cycle before is absent from the current
\* discovery, and the current cycle has sent the samples of another one.
C10_Witness ==
    /\ pc = "done"
    /\ "archive" \in prev.srr
    /\ Discovered = {"backup"}
    /\ DataOf("backup") # {}

\* ------------------------------------------------------------------ C11
\* The value of a vector's child as the vector's interface gives it (a child
\* that does not exist yet reads 0).
Val(vec) == WithLabelValues(vec, urlString)[urlString]

\* C11: every Describe call sends the same descriptors as the one before, and
\* a step that is no step of a Collect call (a Describe call; every Collect
\* step moves pc, gets or ch, resp. isPc) leaves the values of up,
\* total_scrapes and json_parse_failures as they were, on Snapshots and on
\* IndicesSettings, before, between and during Collect cycles.
C11_DescribeRepeatableAndChangesNoValue ==
    /\ [][descs # <<>> => descs' = descs]_vars
    /\ [][(pc' = pc /\ gets' = gets /\ ch' = ch) =>
             /\ up' = up
             /\ totalScrapes' = totalScrapes
             /\ jsonParseFailures' = jsonParseFailures]_vars
    /\ [][isDescs # <<>> => isDescs' = isDescs]_vars
    /\ [][isPc' = isPc =>
             /\ Val(isUp') = Val(isUp)
             /\ Val(isTotalScrapes') = Val(isTotalScrapes)
             /\ Val(isJsonParseFailures') = Val(isJsonParseFailures)]_vars

\* Describe was called on a Snapshots collector whose second Collect cycle is
\* in flight, with all three bookkeeping values above 0.
C11_Witness ==
    /\ descs = DescribeDescs
    /\ pc = "fetching"
    /\ totalScrapes = 2
    /\ jsonParseFailures >= 1
    /\ up = 1

\* ------------------------------------------------------------------ C12
\* The discovery GETs of the current cycle.
DiscoveryGets == {i \in DOMAIN gets : gets[i].url = discoveryURL}

\* C12: a Collect cycle never repeats a GET (at most one discovery GET, at
\* most one detail GET per discovered repository and none for another), every
\* cycle that began returns, and a returned cycle has made exactly one
\* discovery GET and, when discovery succeeded, exactly one detail GET per
\* discovered repository, whatever the responses were.
C12_CycleEndsWithOneGetEach ==
    /\ [](/\ Cardinality(DiscoveryGets) <= 1
          /\ \A r \in Repositories :
                Cardinality(DetailGets(r)) <= (IF r \in Discovered THEN 1 ELSE 0))
    /\ [](pc = "done" =>
             /\ Cardinality(DiscoveryGets) = 1
             /\ \A r \in Discovered : Cardinality(DetailGets(r)) = 1
             /\ Len(gets) = 1 + Cardinality(Discovered))
    /\ (pc = "discovering" ~> pc = "done")

\* A cycle that discovered two repositories, one of whose detail GETs failed,
\* has returned after three GETs.
C12_Witness ==
    /\ pc = "done"
    /\ Discovered = Repositories
    /\ \E r \in Discovered : DetailFailed(r)
    /\ Len(gets) = 3

\* ------------------------------------------------------------------ C13
\* The discovered repositories whose detail GET failed in the current cycle.
FailedDetails == {r \in Discovered : DetailFailed(r)}

\* C13: once the detail GET of a discovered repository has failed, the log of
\* the cycle holds an entry for that failure: at least one entry per failed
\* detail GET.
C13_FailedDetailFetchIsLogged ==
    Len(logs) >= Cardinality(FailedDetails)

\* ------------------------------------------------------------------ C14
\* C14: for every fetched repository the per-entity samples are there when
\* the cycle has returned, whatever the payload; number_of_snapshots is the
\* length of the records sequence and oldest_snapshot_timestamp is 0 for the
\* empty sequence and else the start time of the first record, in
\* milliseconds, integer-divided by 1000 (100 for OlderSnapshot, 200 for
\* NewerSnapshot, whose start time is 200750 ms).
C14_PerEntityValues ==
    \A r \in Discovered :
        DetailOK(r) =>
            LET records == Payload(r).Snapshots IN
            /\ pc = "done" =>
                  \A k \in DOMAIN repositoryMetrics :
                     SentOfFor(repositoryMetrics[k], r) # {}
            /\ \A i \in SentOfFor(repositoryMetrics[1], r) :
                  ch[i].Value = Len(records)
            /\ \A i \in SentOfFor(repositoryMetrics[2], r) :
                  /\ records = <<>> => ch[i].Value = 0
                  /\ records # <<>> =>
                        /\ ch[i].Value * 1000 <= records[1].StartTimeInMillis
                        /\ records[1].StartTimeInMillis < (ch[i].Value + 1) * 1000
                        /\ records[1] = OlderSnapshot => ch[i].Value = 100
                        /\ records[1] = NewerSnapshot => ch[i].Value = 200

\* The per-entity samples of a repository without records and of one with
\* the records <<OlderSnapshot, NewerSnapshot>> were sent.
C14_Witness ==
    /\ pc = "done"
    /\ \E r, q \in Discovered :
          /\ DetailOK(r)
          /\ DetailOK(q)
          /\ Payload(r).Snapshots = <<>>
          /\ Payload(q).Snapshots = <<OlderSnapshot, NewerSnapshot>>
          /\ \E i \in SentOfFor(repositoryMetrics[2], r) : ch[i].Value = 0
          /\ \E i \in SentOfFor(repositoryMetrics[2], q) : ch[i].Value = 100

\* ------------------------------------------------------------------ C15
\* C15: total_scrapes goes up by exactly 1 in the step that begins a Collect
\* call and in no other step, on Snapshots and on IndicesSettings, so that
\* from 0 it counts the calls begun; the increment is there before the first
\* GET of the call, whatever the call's outcome, and the total_scrapes sample
\* a Snapshots cycle sends is the count including that cycle.
C15_TotalScrapesCountsCalls ==
    /\ [][IF pc' = "discovering" /\ pc # "discovering"
          THEN totalScrapes' = totalScrapes + 1
          ELSE totalScrapes' = totalScrapes]_vars
    /\ [][IF isPc' = "fetching" /\ isPc # "fetching"
          THEN Val(isTotalScrapes') = Val(isTotalScrapes) + 1
          ELSE Val(isTotalScrapes') = Val(isTotalScrapes)]_vars
    /\ [](/\ pc = "idle" => totalScrapes = 0
          /\ pc = "discovering" => gets = <<>>
          /\ pc # "idle" => totalScrapes = prev.totalScrapes + 1
          /\ \A i \in SentOf(totalScrapesDesc) :
                ch[i].Value = prev.totalScrapes + 1)
    /\ [](/\ isPc = "idle" => Val(isTotalScrapes) = 0
          /\ isPc = "fetching" => isGets = <<>>
          /\ isPc # "idle" => Val(isTotalScrapes) >= 1)

\* The second Collect call on a Snapshots collector, whose discovery failed,
\* has returned and has sent total_scrapes as 2.
C15_Witness ==
    /\ pc = "done"
    /\ DiscoveryFailed
    /\ prev.totalScrapes = 1
    /\ \E i \in SentOf(totalScrapesDesc) : ch[i].Value = 2

\* ------------------------------------------------------------------ C16
\* The GETs of the current cycle that returned a response.
WithResponse == {i \in DOMAIN gets : ~gets[i].res.failed}
ISWithResponse == {i \in DOMAIN isGets : ~isGets[i].failed}

\* C16: after every getAndParseURL call, of Snapshots and of IndicesSettings,
\* the bodies closed are as many as the bodies opened and as the GETs that
\* returned a response (so each such GET was closed once, on the non-200, the
\* decode-failure and the success path, and a GET that returned an error was
\* not); no body is open after a Collect cycle.
C16_EveryResponseBodyClosedOnce ==
    /\ opened = Cardinality(WithResponse)
    /\ closed = Cardinality(WithResponse)
    /\ isOpened = Cardinality(ISWithResponse)
    /\ isClosed = Cardinality(ISWithResponse)

\* A Snapshots cycle whose three GETs ended one on a non-200 status, one on a
\* decode failure and one in success has returned with three bodies closed.
C16_Witness ==
    /\ pc = "done"
    /\ Len(gets) = 3
    /\ \E i, j \in 2..3 :
          /\ IsDecodeFailure(gets[i].res)
          /\ ~gets[j].res.failed
          /\ gets[j].res.StatusCode # StatusOK
    /\ closed = 3

\* ------------------------------------------------------------------ C17
\* The indices the settings body b reports with read_only exactly "true".
ReportedReadOnly(b) == {i \in IndexNames : i \in DOMAIN b /\ b[i] = "true"}

\* C17: when an IndicesSettings.Collect call has returned, up is 1 and
\* read_only_indices is the number of indices reported with read_only "true"
\* (the value it also sent) if the fetch succeeded, and both are 0 if it
\* failed, whatever the gauges held from the cycles before.
C17_ReadOnlyIndicesOfThisCycle ==
    isPc = "done" =>
        IF Succeeded(isGets[1])
        THEN /\ isUp[urlString] = 1
             /\ isReadOnlyIndices[urlString] =
                   Cardinality(ReportedReadOnly(isGets[1].Body.value))
             /\ \E i \in DOMAIN isCh :
                   /\ isCh[i].Desc = isReadOnlyIndicesDesc
                   /\ isCh[i].Value =
                         Cardinality(ReportedReadOnly(isGets[1].Body.value))
        ELSE /\ isUp[urlString] = 0
             /\ isReadOnlyIndices[urlString] = 0

\* The second cycle fetched settings with one index read_only "true" and one
\* with an absent setting, and left the gauge at 1.
C17_Witness ==
    /\ isPc = "done"
    /\ isTotalScrapes[urlString] = 2
    /\ Succeeded(isGets[1])
    /\ DOMAIN isGets[1].Body.value = IndexNames
    /\ isGets[1].Body.value["logs"] = "true"
    /\ isGets[1].Body.value["metrics"] = ""
    /\ isReadOnlyIndices[urlString] = 1

\* ------------------------------------------------------------------ C18
RECURSIVE SumOver(_, _)
SumOver(f, S) ==
    IF S = {} THEN 0
    ELSE LET g == CHOOSE x \in S : TRUE IN f[g] + SumOver(f, S \ {g})

\* C18: however the Collect calls of two goroutines on one Snapshots
\* collector interleave, no increment is lost: at every moment total_scrapes
\* is the number of calls begun and json_parse_failures the number of decode
\* failures met by all calls together (so after two calls total_scrapes has
\* grown by 2), and neither counter ever decreases.
C18_NoCounterUpdateLost ==
    /\ [](/\ cTotalScrapes = SumOver(cBegun, Goroutines)
          /\ cJsonParseFailures = SumOver(cFailures, Goroutines))
    /\ [][/\ cTotalScrapes' >= cTotalScrapes
          /\ cJsonParseFailures' >= cJsonParseFailures]_vars

\* Two calls are in flight at once, each after a decode failure in its
\* detail loop, and both increments are in the counters.
C18_Witness ==
    /\ \A g \in Goroutines :
          /\ cPc[g] = "fetching"
          /\ cBegun[g] = 1
          /\ cFailures[g] = 1
          /\ cPending[g] # Repositories
    /\ cTotalScrapes = 2
    /\ cJsonParseFailures = 2

====
